---- MODULE Spec2Model ----
(***************************************************************************)
(* Model of the interactive-feedback MCP server (server.py): one call of   *)
(* interactive_feedback, the UI child process it launches, the temporary   *)
(* result file the two share, and the translation of the result into the   *)
(* reply's content items.  Spec lets the child do anything a process can   *)
(* do; UISpec runs feedback_ui.py as the child: its command line, its      *)
(* dialog (text, option boxes, pasted images) and the result it writes;    *)
(* TwoCallSpec runs two calls at the same time over one temp directory.    *)
(*                                                                         *)
(* Text is a sequence of tokens: single characters ("a", " ", "\n") and    *)
(* the fixed phrases the server inserts.  JSON values are tagged records   *)
(* [t |-> type, v |-> payload], the payload always a sequence.             *)
(***************************************************************************)
EXTENDS Integers, Sequences, FiniteSets, TLC

\* ------------------------------------------------------------------ bounds
MaxTextLen == 2
MaxImages == 3
MaxTicks == 2
SecondsPerTick == 200
MaxPromptLen == 2
MaxOptions == 2
MaxPastes == 3
MaxPaths == 2

\* --------------------------------------------------------------- constants
STOP_NOTE == "User selected End. Finalize the response now and do not call the interactive_feedback tool again."

ERROR_PREFIX == "[error] Feedback UI failed: "

\* ------------------------------------------------------------- JSON values
Str(s) == [t |-> "str", v |-> s]
Num(d) == [t |-> "num", v |-> <<d>>]
Bool(b) == [t |-> "bool", v |-> <<IF b THEN "true" ELSE "false">>]
Null == [t |-> "null", v |-> <<>>]
List(l) == [t |-> "list", v |-> l]
Obj(o) == [t |-> "obj", v |-> <<o>>]
\* A key the object does not have.
Absent == [t |-> "absent", v |-> <<>>]

\* Python's name of the type json.load gives a JSON value.
TypeName(val) ==
    CASE val.t = "str" -> "str"
      [] val.t = "num" -> "int"
      [] val.t = "bool" -> "bool"
      [] val.t = "null" -> "NoneType"
      [] val.t = "list" -> "list"
      [] OTHER -> "dict"

\* bool(x)
Truthy(val) ==
    CASE val.t = "bool" -> val.v = <<"true">>
      [] val.t = "num" -> val.v # <<"0">>
      [] val.t = "null" -> FALSE
      [] val.t = "absent" -> FALSE
      [] OTHER -> val.v # <<>>

\* -------------------------------------------------------------------- text
Whitespace == {" ", "\n", "\t"}

Sep == <<"\n", "\n">>

RECURSIVE LStrip(_)
LStrip(s) == IF s # <<>> /\ Head(s) \in Whitespace THEN LStrip(Tail(s)) ELSE s

RECURSIVE RStrip(_)
RStrip(s) ==
    IF s # <<>> /\ s[Len(s)] \in Whitespace
    THEN RStrip(SubSeq(s, 1, Len(s) - 1))
    ELSE s

\* str.strip()
StripLeftOnly(s) == LStrip(s)

Strip(s) == RStrip(LStrip(s))

\* f"{txt}\n\n{extra}" if txt else extra
JoinNoSeparatorCheck(txt, extra) == txt \o Sep \o extra

Join(txt, extra) == IF txt # <<>> THEN txt \o Sep \o extra ELSE extra

\* ------------------------------------------------------------------ base64
\* binascii's decoding table: the value of an alphabet character, 64 for a
\* character outside the alphabet.
B64Value(c) ==
    CASE c = "A" -> 0
      [] c = "B" -> 1
      [] c = "Q" -> 16
      [] c = "/" -> 63
      [] OTHER -> 64

Decoded(data) == [ok |-> TRUE, data |-> data, detail |-> <<>>]
DecodeError(detail) == [ok |-> FALSE, data |-> <<>>, detail |-> detail]

\* binascii.a2b_base64 in its default, non-strict mode: characters outside
\* the alphabet are skipped, a complete pad sequence ends the input, and
\* only an incomplete final quad is an error.
RECURSIVE a2b_base64(_, _, _, _, _, _)
a2b_base64(s, i, quad_pos, pads, leftchar, out) ==
    IF i > Len(s)
    THEN IF quad_pos = 0
         THEN Decoded(out)
         ELSE IF quad_pos = 1
         THEN DecodeError(<<"Invalid base64-encoded string: number of data characters (",
                            ToString((Len(out) \div 3) * 4 + 1),
                            ") cannot be 1 more than a multiple of 4">>)
         ELSE DecodeError(<<"Incorrect padding">>)
    ELSE IF s[i] = "="
    THEN IF quad_pos >= 2 /\ quad_pos + pads + 1 >= 4
         THEN Decoded(out)
         ELSE a2b_base64(s, i + 1, quad_pos,
                         IF quad_pos >= 2 THEN pads + 1 ELSE pads, leftchar, out)
    ELSE IF B64Value(s[i]) >= 64
    THEN a2b_base64(s, i + 1, quad_pos, pads, leftchar, out)
    ELSE LET c == B64Value(s[i]) IN
         CASE quad_pos = 0 -> a2b_base64(s, i + 1, 1, 0, c, out)
           [] quad_pos = 1 ->
                a2b_base64(s, i + 1, 2, 0, c % 16,
                           Append(out, (leftchar * 4 + c \div 16) % 256))
           [] quad_pos = 2 ->
                a2b_base64(s, i + 1, 3, 0, c % 4,
                           Append(out, (leftchar * 16 + c \div 4) % 256))
           [] OTHER ->
                a2b_base64(s, i + 1, 0, 0, 0,
                           Append(out, (leftchar * 64 + c) % 256))

\* base64.b64decode(b64): a str is decoded, anything else json.load can
\* produce is a TypeError.
b64decode(b64) ==
    IF b64.t = "str"
    THEN a2b_base64(b64.v, 1, 0, 0, 0, <<>>)
    ELSE DecodeError(<<"argument should be a bytes-like object or ASCII string, not '",
                       TypeName(b64), "'">>)

\* ------------------------------------------------------------ content items
\* mcp.types.TextContent(type="text", text=...)
TextContent(text) == [type |-> "text", text |-> text, data |-> <<>>]

\* Image(data=..., format="png").to_image_content(): the item carries the
\* decoded bytes, declared as PNG.
ImageContent(data) == [type |-> "image", text |-> <<>>, data |-> data]

\* ------------------------------------------------------ exceptions, results
NoExc == [type |-> "none", detail |-> <<>>]
Exc(type, detail) == [type |-> type, detail |-> detail]

\* FeedbackResult(interactive_feedback=..., images=..., end_session=...)
FeedbackResult(fb, images, end) ==
    [interactive_feedback |-> fb, images |-> images, end_session |-> end]

NoResult == FeedbackResult(Absent, Absent, Absent)

Returned(value) == [status |-> "ok", value |-> value, exc |-> NoExc]
Raised(exc) == [status |-> "raised", value |-> NoResult, exc |-> exc]
NotCalled == [status |-> "none", value |-> NoResult, exc |-> NoExc]

\* -------------------------------------------------------- the result file
NoFile == [exists |-> FALSE, kind |-> "none", val |-> Null]
\* The zero-length file tempfile.NamedTemporaryFile(delete=False) leaves.
EmptyFile == [exists |-> TRUE, kind |-> "empty", val |-> Null]
\* Text that is not JSON (a truncated or foreign write).
GarbageFile == [exists |-> TRUE, kind |-> "garbage", val |-> Null]
\* A path open() cannot read.
UnreadableFile == [exists |-> TRUE, kind |-> "unreadable", val |-> Null]
JsonFile(val) == [exists |-> TRUE, kind |-> "json", val |-> val]

NoRead == [kind |-> "none", val |-> Null]

\* ------------------------------------------------ what a child may write
TextChars == {"a", " "}

Texts == UNION {[1..k -> TextChars] : k \in 0..MaxTextLen}

FeedbackValues == {Absent, Null, Num("5")} \cup {Str(s) : s \in Texts}

\* "QQ==" is the base64 of one byte, "A" is one data character too many,
\* "!AAAB" holds a character outside the alphabet, 5 is not a string.
ImageEntries ==
    { Str(<<"Q", "Q", "=", "=">>),
      Str(<<"A">>),
      Str(<<"!", "A", "A", "A", "B">>),
      Num("5") }

ImageLists == UNION {[1..k -> ImageEntries] : k \in 0..MaxImages}

ImagesValues == {Absent, Null, Str(<<"A", "=">>)} \cup {List(l) : l \in ImageLists}

EndSessionValues == {Absent, Bool(TRUE), Bool(FALSE), Num("1"), Null}

Objects ==
    { Obj(FeedbackResult(fb, im, en)) :
        fb \in FeedbackValues, im \in ImagesValues, en \in EndSessionValues }

NonObjects == {Null, Num("5"), Str(<<"a">>), List(<<>>), Bool(TRUE)}

FileContents ==
    {EmptyFile, GarbageFile, UnreadableFile}
        \cup {JsonFile(val) : val \in Objects \cup NonObjects}

ExitCodes == {0, 1, 2}

StderrTexts == {<<>>, <<"usage: feedback_ui.py">>}

\* ------------------------------------------------------ launch_feedback_ui
\* json.load(f) on the open file, with the two handlers around it: the
\* parsed value, or the exception the handler re-raises.
ReadResult(file) ==
    CASE file.kind = "json" -> Returned(file.val)
      [] file.kind = "unreadable" ->
            Raised(Exc("Exception", <<"Failed to read feedback result file: ",
                                      "[Errno 13] Permission denied">>))
      [] file.kind = "empty" ->
            Raised(Exc("Exception", <<"Failed to parse feedback result JSON: ",
                                      "Expecting value: line 1 column 1 (char 0)">>))
      [] OTHER ->
            Raised(Exc("Exception", <<"Failed to parse feedback result JSON: ",
                                      "Expecting value">>))

\* A key missing from the object gets its default; a key present is kept.
DefaultNotApplied(val, dflt) == val

Default(val, dflt) == IF val = Absent THEN dflt ELSE val

\* The structure check and the three defaults.
ValidateAnyValue(result_data) ==
    IF result_data.t # "obj"
    THEN Returned(FeedbackResult(Str(<<>>), List(<<>>), Bool(FALSE)))
    ELSE LET o == result_data.v[1] IN
         Returned(FeedbackResult(Default(o.interactive_feedback, Str(<<>>)),
                                 Default(o.images, List(<<>>)),
                                 Default(o.end_session, Bool(FALSE))))

Validate(result_data) ==
    IF result_data.t # "obj"
    THEN Raised(Exc("ValueError", <<"Invalid feedback result: expected dict">>))
    ELSE LET o == result_data.v[1] IN
         Returned(FeedbackResult(Default(o.interactive_feedback, Str(<<>>)),
                                 Default(o.images, List(<<>>)),
                                 Default(o.end_session, Bool(FALSE))))

\* The result of a user-cancelled window.
Cancelled == FeedbackResult(Str(<<>>), List(<<>>), Bool(FALSE))

\* What launch_feedback_ui does once subprocess.run has returned: the exit
\* status check, the missing-file carve-out, the read and the validation.
AfterRunIgnoresStatus(code, err, file) ==
    IF ~file.exists
    THEN Returned(Cancelled)
    ELSE LET r == ReadResult(file) IN
         IF r.status = "raised" THEN r ELSE Validate(r.value)

AfterRunDowngradesParseError(code, err, file) ==
    IF code # 0
    THEN Raised(Exc("Exception",
                    <<"Failed to launch feedback UI (code ", ToString(code), "): ">>
                        \o (IF err # <<>> THEN err ELSE <<"Unknown error">>)))
    ELSE IF ~file.exists
    THEN Returned(Cancelled)
    ELSE LET r == ReadResult(file) IN
         IF r.status = "raised" THEN Returned(Cancelled) ELSE Validate(r.value)

AfterRun(code, err, file) ==
    IF code # 0
    THEN Raised(Exc("Exception",
                    <<"Failed to launch feedback UI (code ", ToString(code), "): ">>
                        \o (IF err # <<>> THEN err ELSE <<"Unknown error">>)))
    ELSE IF ~file.exists
    THEN Returned(Cancelled)
    ELSE LET r == ReadResult(file) IN
         IF r.status = "raised" THEN r ELSE Validate(r.value)

\* Whether the call above opened the file.
ReadsFileAnyStatus(code, file) == file.exists

ReadsFile(code, file) == code = 0 /\ file.exists

\* The finally block: the file is unlinked if it exists; a failing unlink
\* is swallowed and leaves the file.
CleanupNever(file, unlink_ok) == file

Cleanup(file, unlink_ok) == IF file.exists /\ unlink_ok THEN NoFile ELSE file

\* ---------------------------------------------------- interactive_feedback
\* The warning a failed decode adds.
WarningZeroBased(idx, detail) ==
    <<"[warning] Image ", ToString(idx - 1), " failed to decode: ">> \o detail

Warning(idx, detail) ==
    <<"[warning] Image ", ToString(idx), " failed to decode: ">> \o detail

\* The loop over enumerate(img_b64_list, start=1).
RECURSIVE DecodeImages(_, _, _, _)
DecodeImages(img_b64_list, idx, txt, images) ==
    IF idx > Len(img_b64_list)
    THEN [txt |-> txt, images |-> images]
    ELSE LET r == b64decode(img_b64_list[idx]) IN
         IF r.ok
         THEN DecodeImages(img_b64_list, idx + 1, txt, Append(images, r.data))
         ELSE DecodeImages(img_b64_list, idx + 1,
                           Join(txt, Warning(idx, r.detail)), images)

\* What iterating the images value yields: a list its entries, a str its
\* characters.
Items(val) ==
    IF val.t = "list" THEN val.v ELSE [i \in 1..Len(val.v) |-> Str(<<val.v[i]>>)]

Iterable(val) == val.t \in {"list", "str"}

\* The text after the stop note is added.
WithStopNoteFirst(txt, end_session) ==
    IF end_session THEN Join(<<STOP_NOTE>>, txt) ELSE txt

WithStopNote(txt, end_session) ==
    IF end_session THEN Join(txt, <<STOP_NOTE>>) ELSE txt

\* The content list: the text if any, the images, and an empty text item
\* if there is neither.
AssembleTextLast(txt, images) ==
    LET contents ==
            [i \in 1..Len(images) |-> ImageContent(images[i])]
                \o (IF txt # <<>> THEN <<TextContent(txt)>> ELSE <<>>)
    IN  IF contents = <<>> THEN <<TextContent(<<>>)>> ELSE contents

Assemble(txt, images) ==
    LET contents ==
            (IF txt # <<>> THEN <<TextContent(txt)>> ELSE <<>>)
                \o [i \in 1..Len(images) |-> ImageContent(images[i])]
    IN  IF contents = <<>> THEN <<TextContent(<<>>)>> ELSE contents

\* The reply to a failed launch.
ErrorReplyNoPrefix(exc) == <<TextContent(exc.detail)>>

ErrorReply(exc) == <<TextContent(<<ERROR_PREFIX>> \o exc.detail)>>

\* The translation of a result into the reply, or the exception that
\* leaves interactive_feedback.
Translate(result_dict) ==
    LET fb == result_dict.interactive_feedback
        im == result_dict.images
    IN  IF fb.t # "str"
        THEN Raised(Exc("AttributeError",
                        <<"'", TypeName(fb), "' object has no attribute 'strip'">>))
        ELSE IF ~Iterable(im)
        THEN Raised(Exc("TypeError", <<"'", TypeName(im), "' object is not iterable">>))
        ELSE LET txt == WithStopNote(Strip(fb.v), Truthy(result_dict.end_session))
                 d == DecodeImages(Items(im), 1, txt, <<>>)
             IN  Returned(Assemble(d.txt, d.images))

\* Everything after the call of launch_feedback_ui.
Reply(outcome) ==
    IF outcome.status = "raised"
    THEN Returned(ErrorReply(outcome.exc))
    ELSE Translate(outcome.value)

\* ------------------------------------------------- the process boundary
\* str.encode("utf-8") for the characters the model draws prompts from.
Utf8(c) ==
    CASE c = "a" -> 97
      [] c = "-" -> 45
      [] c = "\"" -> 34
      [] c = "\n" -> 10
      [] OTHER -> 63

encode(s) == [i \in 1..Len(s) |-> Utf8(s[i])]

\* The base64 alphabet, value 0 first.
B64Alphabet ==
    <<"A", "B", "C", "D", "E", "F", "G", "H", "I", "J", "K", "L", "M",
      "N", "O", "P", "Q", "R", "S", "T", "U", "V", "W", "X", "Y", "Z",
      "a", "b", "c", "d", "e", "f", "g", "h", "i", "j", "k", "l", "m",
      "n", "o", "p", "q", "r", "s", "t", "u", "v", "w", "x", "y", "z",
      "0", "1", "2", "3", "4", "5", "6", "7", "8", "9", "+", "/">>

\* base64.b64encode: three bytes become four characters, a last group of
\* one or two bytes is padded with "=".
RECURSIVE b64encode(_)
b64encode(bytes) ==
    IF bytes = <<>>
    THEN <<>>
    ELSE LET n == IF Len(bytes) < 3 THEN Len(bytes) ELSE 3
             b2 == IF n >= 2 THEN bytes[2] ELSE 0
             b3 == IF n >= 3 THEN bytes[3] ELSE 0
             bits == bytes[1] * 65536 + b2 * 256 + b3
         IN  <<B64Alphabet[(bits \div 262144) + 1],
               B64Alphabet[((bits \div 4096) % 64) + 1],
               IF n >= 2 THEN B64Alphabet[((bits \div 64) % 64) + 1] ELSE "=",
               IF n >= 3 THEN B64Alphabet[(bits % 64) + 1] ELSE "=">>
                 \o b64encode(SubSeq(bytes, n + 1, Len(bytes)))

\* json.dumps of a str: quoted, with the quote, the backslash and the
\* newline escaped.
RECURSIVE dumps_str(_)
dumps_str(s) ==
    IF s = <<>>
    THEN <<>>
    ELSE (CASE s[1] = "\"" -> <<"\\", "\"">>
            [] s[1] = "\\" -> <<"\\", "\\">>
            [] s[1] = "\n" -> <<"\\", "n">>
            [] OTHER -> <<s[1]>>) \o dumps_str(Tail(s))

\* json.dumps of a list of str: the items between brackets, separated by a
\* comma and a space.
RECURSIVE dumps_items(_)
dumps_items(l) ==
    IF l = <<>>
    THEN <<>>
    ELSE <<"\"">> \o dumps_str(l[1]) \o <<"\"">>
            \o (IF Len(l) > 1 THEN <<",", " ">> ELSE <<>>) \o dumps_items(Tail(l))

dumps(l) == <<"[">> \o dumps_items(l) \o <<"]">>

\* json.loads: the value a text parses to, or the failure.  Parsed(val, i)
\* is a value that ended before position i.
Parsed(val, i) == [ok |-> TRUE, val |-> val, next |-> i]
JSONDecodeError == [ok |-> FALSE, val |-> Null, next |-> 0]

Digits == {"0", "1", "2", "3", "4", "5", "6", "7", "8", "9"}

\* The text s has the characters w from position i on.
StartsAt(s, i, w) == i + Len(w) - 1 <= Len(s) /\ SubSeq(s, i, i + Len(w) - 1) = w

RECURSIVE skip_ws(_, _)
skip_ws(s, i) ==
    IF i <= Len(s) /\ s[i] \in {" ", "\n"} THEN skip_ws(s, i + 1) ELSE i

\* The characters of a string up to its closing quote.
RECURSIVE scanstring(_, _, _)
scanstring(s, i, acc) ==
    IF i > Len(s) \/ s[i] = "\n"
    THEN JSONDecodeError
    ELSE IF s[i] = "\"" THEN Parsed(Str(acc), i + 1)
    ELSE IF s[i] # "\\" THEN scanstring(s, i + 1, Append(acc, s[i]))
    ELSE IF i + 1 > Len(s) THEN JSONDecodeError
    ELSE IF s[i + 1] \in {"\"", "\\", "/"}
    THEN scanstring(s, i + 2, Append(acc, s[i + 1]))
    ELSE IF s[i + 1] = "n" THEN scanstring(s, i + 2, Append(acc, "\n"))
    ELSE JSONDecodeError

RECURSIVE scandigits(_, _, _)
scandigits(s, i, acc) ==
    IF i <= Len(s) /\ s[i] \in Digits
    THEN scandigits(s, i + 1, Append(acc, s[i]))
    ELSE Parsed([t |-> "num", v |-> acc], i)

\* One value starting at position i: a string, an array, a whole number
\* without sign, a literal or the empty object.
RECURSIVE parse_value(_, _)
RECURSIVE parse_array(_, _, _)
parse_value(s, i) ==
    IF i > Len(s) THEN JSONDecodeError
    ELSE IF s[i] = "\"" THEN scanstring(s, i + 1, <<>>)
    ELSE IF s[i] = "[" THEN
         LET j == skip_ws(s, i + 1) IN
         IF j <= Len(s) /\ s[j] = "]"
         THEN Parsed(List(<<>>), j + 1)
         ELSE parse_array(s, j, <<>>)
    ELSE IF s[i] = "0" THEN Parsed([t |-> "num", v |-> <<"0">>], i + 1)
    ELSE IF s[i] \in Digits THEN scandigits(s, i, <<>>)
    ELSE IF StartsAt(s, i, <<"n", "u", "l", "l">>) THEN Parsed(Null, i + 4)
    ELSE IF StartsAt(s, i, <<"t", "r", "u", "e">>) THEN Parsed(Bool(TRUE), i + 4)
    ELSE IF StartsAt(s, i, <<"f", "a", "l", "s", "e">>) THEN Parsed(Bool(FALSE), i + 5)
    ELSE IF s[i] = "{" /\ skip_ws(s, i + 1) <= Len(s) /\ s[skip_ws(s, i + 1)] = "}"
    THEN Parsed(Obj(NoResult), skip_ws(s, i + 1) + 1)
    ELSE JSONDecodeError

\* The items of an array from position i, acc the items before it.
parse_array(s, i, acc) ==
    LET item == parse_value(s, i) IN
    IF ~item.ok THEN JSONDecodeError
    ELSE LET j == skip_ws(s, item.next)
             items == Append(acc, item.val)
         IN  IF j > Len(s) THEN JSONDecodeError
             ELSE IF s[j] = "]" THEN Parsed(List(items), j + 1)
             ELSE IF s[j] = "," THEN parse_array(s, skip_ws(s, j + 1), items)
             ELSE JSONDecodeError

loads(s) ==
    LET r == parse_value(s, skip_ws(s, 1)) IN
    IF r.ok /\ skip_ws(s, r.next) > Len(s) THEN r ELSE JSONDecodeError

\* The predefined_options argument: None, or a list of strings.
NoOptions == [is_list |-> FALSE, items |-> <<>>]
OptionList(l) == [is_list |-> TRUE, items |-> l]

\* base64 of DEFAULT_SYSTEM_PROMPT, a fixed text of the base64 alphabet.
DEFAULT_PROMPT_B64 == <<"base64(DEFAULT_SYSTEM_PROMPT)">>

\* The path tempfile.NamedTemporaryFile gave the call.
TempPath == <<"/tmp/tmp.json">>

\* The arguments launch_feedback_ui puts after the script path.  An
\* argument is a sequence of characters; an option name is one element.
ServerArgs(summary, predefinedOptions, path) ==
    << <<"--encoded-prompt">>, b64encode(encode(summary)),
       <<"--output-file">>, path,
       <<"--predefined-options">>,
       IF predefinedOptions.is_list /\ predefinedOptions.items # <<>>
       THEN dumps(predefinedOptions.items) ELSE <<>>,
       <<"--default-prompt">>, DEFAULT_PROMPT_B64 >>

\* The options the parser of feedback_ui.py defines.
OptionStrings == {"--prompt", "--predefined-options", "--output-file"}

\* Elements that begin with a hyphen.
Hyphenated ==
    OptionStrings \cup {"--encoded-prompt", "--default-prompt", "-"}

\* argparse takes an argument for an option, not for a value, when it
\* begins with a hyphen, is longer than the hyphen alone and has no space.
LooksLikeOption(arg) ==
    /\ arg # <<>>
    /\ arg[1] \in Hyphenated
    /\ (arg[1] = "-" => Len(arg) > 1)
    /\ \A i \in 1..Len(arg) : arg[i] # " "

\* The default of --prompt.
DefaultPromptText == <<"I have completed the modifications according to your request.">>

\* argparse.Namespace(prompt=..., predefined_options=..., output_file=...);
\* output_file = None is the empty path.
Namespace(p, o, f) == [prompt |-> p, predefined_options |-> o, output_file |-> f]

Accepted(ns) == [ok |-> TRUE, ns |-> ns, message |-> <<>>]
Rejected(message) ==
    [ok |-> FALSE, ns |-> Namespace(<<>>, <<>>, <<>>), message |-> message]

\* The arguments joined by spaces, as the error message shows them.
RECURSIVE Shown(_)
Shown(args) ==
    IF args = <<>> THEN <<>>
    ELSE args[1] \o (IF Len(args) > 1 THEN <<" ">> ELSE <<>>) \o Shown(Tail(args))

\* parser.parse_args(): an option the parser defines takes the next
\* argument as its value, anything else is collected and rejected at the
\* end.
RECURSIVE parse_known_args(_, _, _, _)
parse_known_args(args, i, ns, extras) ==
    IF i > Len(args)
    THEN IF extras = <<>>
         THEN Accepted(ns)
         ELSE Rejected(<<"unrecognized arguments: ">> \o Shown(extras))
    ELSE IF Len(args[i]) = 1 /\ args[i][1] \in OptionStrings
    THEN IF i + 1 > Len(args) \/ LooksLikeOption(args[i + 1])
         THEN Rejected(<<"argument ", args[i][1], ": expected one argument">>)
         ELSE parse_known_args(args, i + 2,
                  CASE args[i][1] = "--prompt" -> [ns EXCEPT !.prompt = args[i + 1]]
                    [] args[i][1] = "--predefined-options" ->
                          [ns EXCEPT !.predefined_options = args[i + 1]]
                    [] OTHER -> [ns EXCEPT !.output_file = args[i + 1]],
                  extras)
    ELSE parse_known_args(args, i + 1, ns, Append(extras, args[i]))

parse_args(args) ==
    parse_known_args(args, 1, Namespace(DefaultPromptText, <<>>, <<>>), <<>>)

\* What argparse writes to the error stream before it exits with status 2.
Usage(message) == <<"usage: feedback_ui.py", ": error: ">> \o message

\* The options the dialog is built with: the decoded list, or none when
\* the argument is empty, is not JSON or is not a list.
DecodeOptions(arg) ==
    IF arg = <<>>
    THEN <<>>
    ELSE LET r == loads(arg) IN
         IF r.ok /\ r.val.t = "list" THEN r.val.v ELSE <<>>

\* A call of interactive_feedback(message, predefined_options).
Request(message, options) == [message |-> message, predefined_options |-> options]
NoRequest == Request(<<>>, NoOptions)

\* What the person at the dialog is about to do: cancel, or type text,
\* check the option boxes at the positions picks and submit; end says
\* that they want the feedback loop to stop, pastes how many images they
\* have on their clipboard to paste.
Human(intent, text, picks, end, pastes) ==
    [intent |-> intent, text |-> text, picks |-> picks, end |-> end,
     pastes |-> pastes]
NoHuman == Human("none", <<>>, {}, FALSE, 0)

\* Two calls of interactive_feedback at the same time, and the names
\* NamedTemporaryFile can give to a file in the temp directory.
Calls == {1, 2}
Paths == 1..MaxPaths

\* One of two concurrent calls: where it is, the path of its temporary
\* file (0 before it has one), its child, what the child put into the
\* file it was given, and the outcome.
Call(pc_, path, child_, code, err, written, launch_, reply_, error_) ==
    [pc |-> pc_, path |-> path, child |-> child_, returncode |-> code,
     stderr |-> err, written |-> written, launch |-> launch_,
     reply |-> reply_, error |-> error_]

NoCall == Call("idle", 0, "none", 0, <<>>, NoFile, NotCalled, <<>>, NoExc)

\* A read or an unlink of the file at a path by a call, with the call
\* the file belonged to and the calls that were waiting at that moment.
Touch(by, path, owner, waiting) ==
    [by |-> by, path |-> path, owner |-> owner, waiting |-> waiting]

\* ------------------------------------------------------------------- state
VARIABLES
    pc,            \* where the call is: idle, waiting, launched, returned, raised
    output_file,   \* the temporary result file on disk
    allocated,     \* the call was given a temporary file
    child,         \* the UI process: none, running, exited
    returncode,    \* the exit status of the child
    stderr,        \* what the child wrote to its error stream
    elapsed,       \* ticks of wall-clock time the child has run
    wrote,         \* the child has written the result file
    read_data,     \* what launch_feedback_ui found when it read the file
    unlinked,      \* the finally block removed the file
    unlink_failed, \* the finally block's unlink raised OSError
    launch,        \* how launch_feedback_ui ended
    reply,         \* the content list interactive_feedback returned
    error,         \* the exception that left interactive_feedback
    started,       \* how many child processes the call has started
    request,       \* the message and predefined_options of the call
    human,         \* what the person at the dialog is about to do
    argv,          \* the command line of the child, after the script path
    ui,            \* where the child is: none, start, dialog, closed, done
    prompt,        \* FeedbackUI.prompt
    predefined_options, \* FeedbackUI.predefined_options
    feedback_text, \* the text in the feedback box
    checked,       \* the positions of the checked option boxes
    feedback_result,    \* FeedbackUI.feedback_result
    image_data,         \* FeedbackTextEdit.image_data
    images_layout,      \* the items of FeedbackUI.images_layout, left to right
    images_visible,     \* images_container.isVisible()
    pasted,             \* every image pasted so far, in paste order
    deleted,            \* the images whose delete button was clicked
    fs,                 \* two concurrent calls: the files of the temp directory
    calls,              \* two concurrent calls: the state of each call
    touched             \* two concurrent calls: who read or unlinked which path

\* The state of the child's dialog and of what it was started with.
imgvars == <<image_data, images_layout, images_visible, pasted, deleted>>

uivars ==
    <<request, human, argv, ui, prompt, predefined_options, feedback_text,
      checked, feedback_result, imgvars>>

twovars == <<fs, calls, touched>>

\* The variables of the single call.
onevars ==
    <<pc, output_file, allocated, child, returncode, stderr, elapsed, wrote,
      read_data, unlinked, unlink_failed, launch, reply, error, started,
      uivars>>

vars == <<onevars, twovars>>

Terminal == {"returned", "raised"}

Init ==
    /\ pc = "idle"
    /\ output_file = NoFile
    /\ allocated = FALSE
    /\ child = "none"
    /\ returncode = 0
    /\ stderr = <<>>
    /\ elapsed = 0
    /\ wrote = FALSE
    /\ read_data = NoRead
    /\ unlinked = FALSE
    /\ unlink_failed = FALSE
    /\ launch = NotCalled
    /\ reply = <<>>
    /\ error = NoExc
    /\ started = 0
    /\ request = NoRequest
    /\ human = NoHuman
    /\ argv = <<>>
    /\ ui = "none"
    /\ prompt = <<>>
    /\ predefined_options = <<>>
    /\ feedback_text = <<>>
    /\ checked = {}
    /\ feedback_result = NoResult
    /\ image_data = <<>>
    /\ images_layout = <<>>
    /\ images_visible = FALSE
    /\ pasted = <<>>
    /\ deleted = {}
    /\ fs = [p \in Paths |-> NoFile]
    /\ calls = [c \in Calls |-> NoCall]
    /\ touched = {}

\* tempfile.NamedTemporaryFile finds no usable directory: the exception
\* leaves launch_feedback_ui before its try block.
TempFileFails ==
    /\ pc = "idle"
    /\ pc' = "launched"
    /\ launch' = Raised(Exc("FileNotFoundError",
                            <<"[Errno 2] No usable temporary directory found">>))
    /\ UNCHANGED <<output_file, allocated, child, returncode, stderr, elapsed,
                   wrote, read_data, unlinked, unlink_failed, reply, error>>
    /\ UNCHANGED <<started, uivars, twovars>>

\* The temporary file is created, feedback_ui.py is not beside server.py:
\* FileNotFoundError, then the finally block.
ScriptMissing ==
    /\ pc = "idle"
    /\ \E unlink_ok \in BOOLEAN :
          /\ output_file' = Cleanup(EmptyFile, unlink_ok)
          /\ unlinked' = unlink_ok
          /\ unlink_failed' = ~unlink_ok
    /\ allocated' = TRUE
    /\ pc' = "launched"
    /\ launch' = Raised(Exc("FileNotFoundError", <<"feedback_ui.py not found at: ">>))
    /\ UNCHANGED <<child, returncode, stderr, elapsed, wrote, read_data, reply, error>>
    /\ UNCHANGED <<started, uivars, twovars>>

\* A launch that starts the child again after a failed attempt.
SpawnRetries ==
    /\ \/ pc = "idle"
       \/ pc = "launched" /\ launch.status = "raised" /\ started = 1
    /\ output_file' = EmptyFile
    /\ allocated' = TRUE
    /\ child' = "running"
    /\ pc' = "waiting"
    /\ UNCHANGED <<returncode, stderr, elapsed, wrote, read_data, unlinked,
                   unlink_failed, launch, reply, error>>
    /\ started' = started + 1
    /\ UNCHANGED <<uivars, twovars>>

\* The temporary file is created and subprocess.run starts the child.
Spawn ==
    /\ pc = "idle"
    /\ output_file' = EmptyFile
    /\ allocated' = TRUE
    /\ child' = "running"
    /\ pc' = "waiting"
    /\ UNCHANGED <<returncode, stderr, elapsed, wrote, read_data, unlinked,
                   unlink_failed, launch, reply, error>>
    /\ started' = started + 1
    /\ UNCHANGED <<uivars, twovars>>

\* A unit of wall-clock time passes while the child runs.
Tick ==
    /\ child = "running"
    /\ elapsed < MaxTicks
    /\ elapsed' = elapsed + 1
    /\ UNCHANGED <<pc, output_file, allocated, child, returncode, stderr, wrote,
                   read_data, unlinked, unlink_failed, launch, reply, error>>
    /\ UNCHANGED <<started, uivars, twovars>>

\* The child writes the file at the path it was given.  It opens the path
\* for writing once; a second write would reach no state a first does not.
ChildWrites ==
    /\ child = "running"
    /\ ~wrote
    /\ \E content \in FileContents : output_file' = content
    /\ wrote' = TRUE
    /\ UNCHANGED <<pc, allocated, child, returncode, stderr, elapsed, read_data,
                   unlinked, unlink_failed, launch, reply, error>>
    /\ UNCHANGED <<started, uivars, twovars>>

\* The file is removed while the child runs.
ChildRemoves ==
    /\ child = "running"
    /\ output_file.exists
    /\ output_file' = NoFile
    /\ UNCHANGED <<pc, allocated, child, returncode, stderr, elapsed, wrote,
                   read_data, unlinked, unlink_failed, launch, reply, error>>
    /\ UNCHANGED <<started, uivars, twovars>>

\* The child exits.
ChildExits ==
    /\ child = "running"
    /\ child' = "exited"
    /\ \E code \in ExitCodes :
          /\ returncode' = code
          /\ stderr' \in (IF code = 0 THEN {<<>>} ELSE StderrTexts)
    /\ UNCHANGED <<pc, output_file, allocated, elapsed, wrote, read_data,
                   unlinked, unlink_failed, launch, reply, error>>
    /\ UNCHANGED <<started, uivars, twovars>>

\* A launch that stops waiting while the child may still be running.
RunReturnsWithoutWaiting ==
    /\ pc = "waiting"
    /\ child \in {"running", "exited"}
    /\ launch' = AfterRun(returncode, stderr, output_file)
    /\ read_data' = IF ReadsFile(returncode, output_file)
                    THEN [kind |-> output_file.kind, val |-> output_file.val]
                    ELSE NoRead
    /\ \E unlink_ok \in BOOLEAN :
          /\ output_file' = Cleanup(output_file, unlink_ok)
          /\ unlinked' = (output_file.exists /\ unlink_ok)
          /\ unlink_failed' = (output_file.exists /\ ~unlink_ok)
    /\ pc' = "launched"
    /\ UNCHANGED <<allocated, child, returncode, stderr, elapsed, wrote, reply, error>>
    /\ UNCHANGED <<started, uivars, twovars>>

\* subprocess.run returns: the rest of launch_feedback_ui, with its finally
\* block.
RunReturns ==
    /\ pc = "waiting"
    /\ child = "exited"
    /\ launch' = AfterRun(returncode, stderr, output_file)
    /\ read_data' = IF ReadsFile(returncode, output_file)
                    THEN [kind |-> output_file.kind, val |-> output_file.val]
                    ELSE NoRead
    /\ \E unlink_ok \in BOOLEAN :
          /\ output_file' = Cleanup(output_file, unlink_ok)
          /\ unlinked' = (output_file.exists /\ unlink_ok)
          /\ unlink_failed' = (output_file.exists /\ ~unlink_ok)
    /\ pc' = "launched"
    /\ UNCHANGED <<allocated, child, returncode, stderr, elapsed, wrote, reply, error>>
    /\ UNCHANGED <<started, uivars, twovars>>

\* interactive_feedback after launch_feedback_ui: the error item, or the
\* translated result, or an exception of the translation.
Respond ==
    /\ pc = "launched"
    /\ LET r == Reply(launch) IN
          IF r.status = "ok"
          THEN pc' = "returned" /\ reply' = r.value /\ error' = NoExc
          ELSE pc' = "raised" /\ reply' = <<>> /\ error' = r.exc
    /\ UNCHANGED <<output_file, allocated, child, returncode, stderr, elapsed,
                   wrote, read_data, unlinked, unlink_failed, launch>>
    /\ UNCHANGED <<started, uivars, twovars>>

Next ==
    \/ TempFileFails
    \/ ScriptMissing
    \/ Spawn
    \/ Tick
    \/ ChildWrites
    \/ ChildRemoves
    \/ ChildExits
    \/ RunReturns
    \/ Respond

Spec == Init /\ [][Next]_vars

\* The server's own steps are taken when they can be; nothing makes the
\* child exit.
FairSpec ==
    /\ Spec
    /\ WF_vars(TempFileFails \/ ScriptMissing \/ Spawn)
    /\ WF_vars(RunReturns)
    /\ WF_vars(Respond)

\* ------------------------------------------- the call with its own child
\* What a call and a command line are drawn from.
PromptChars == {"a", "-", "\"", "\n"}
Prompts == UNION {[1..n -> PromptChars] : n \in 0..MaxPromptLen}

OptionTexts == {<<"a">>, <<"\"", "b">>}
OptionLists == UNION {[1..n -> OptionTexts] : n \in 0..MaxOptions}
OptionsValues == {NoOptions} \cup {OptionList(l) : l \in OptionLists}

HumanTexts == {<<>>, <<"a">>, <<" ">>, <<" ", "a">>}
Humans ==
    {Human("cancel", <<>>, {}, FALSE, 0)}
        \cup {Human("submit", t, picks, end, 0) :
                t \in HumanTexts, picks \in SUBSET (1..MaxOptions), end \in BOOLEAN}
        \cup {Human("submit", <<>>, {}, FALSE, MaxPastes)}

\* Command lines a person may start feedback_ui.py with.
ShellArgs ==
    {p \o o \o f :
        p \in {<<>>} \cup {<< <<"--prompt">>, t >> : t \in Prompts},
        o \in {<<>>} \cup {<< <<"--predefined-options">>, j >> :
                              j \in {<<>>, <<"5">>, <<"[">>}
                                        \cup {dumps(l) : l \in OptionLists}},
        f \in {<<>>, << <<"--output-file">>, <<"out.json">> >>}}

\* "; ".join(selected_options)
RECURSIVE JoinOptions(_)
JoinOptions(selected) ==
    IF selected = <<>> THEN <<>>
    ELSE selected[1].v \o (IF Len(selected) > 1 THEN <<";", " ">> ELSE <<>>)
            \o JoinOptions(Tail(selected))

\* The options at the checked positions, in the order of the boxes.
RECURSIVE Selected(_, _, _)
Selected(options, boxes, i) ==
    IF i > Len(options) THEN <<>>
    ELSE (IF i \in boxes THEN <<options[i]>> ELSE <<>>) \o Selected(options, boxes, i + 1)

\* A _submit_feedback that puts the text before the options.
FinalFeedbackTextFirst(options, boxes, text) ==
    LET selected_options == Selected(options, boxes, 1)
        stripped == Strip(text)
    IN  CASE selected_options # <<>> /\ stripped # <<>> ->
                stripped \o <<"\n", "\n">> \o JoinOptions(selected_options)
          [] selected_options # <<>> -> JoinOptions(selected_options)
          [] OTHER -> stripped

\* The text _submit_feedback builds from the checked options and the
\* text of the feedback box.
FinalFeedback(options, boxes, text) ==
    LET selected_options == Selected(options, boxes, 1)
        stripped == Strip(text)
    IN  CASE selected_options # <<>> /\ stripped # <<>> ->
                JoinOptions(selected_options) \o <<"\n", "\n">> \o stripped
          [] selected_options # <<>> -> JoinOptions(selected_options)
          [] OTHER -> stripped

\* The image on the clipboard at the k-th paste, as the bytes that
\* pixmap.save writes to the buffer.
Clipboard(k) == <<64 + k>>

\* _convert_image_to_base64: the base64 text of the saved image.
convert_image_to_base64(image) == b64encode(image)

\* One entry of image_data.  The file name holds a time stamp and a uuid;
\* the number of the paste stands for them.
ImageInfo(data, k) == [base64 |-> data, filename |-> k]

\* The items of a QHBoxLayout: the frame of an image, or a stretch.
Frame(k) == [kind |-> "widget", frame |-> k]
Stretch == [kind |-> "spacer", frame |-> 0]

\* QLayout.indexOf, counted from 0, -1 when the item is not in the layout.
indexOf(layout, item) ==
    IF \E i \in 1..Len(layout) : layout[i] = item
    THEN (CHOOSE i \in 1..Len(layout) :
             layout[i] = item /\ \A j \in 1..(i - 1) : layout[j] # item) - 1
    ELSE -1

\* The index of the first stretch, -1 when there is none.
stretch_index(layout) == indexOf(layout, Stretch)

\* QBoxLayout.insertWidget(index, widget) and del list[index], both with
\* indices counted from 0.
insertWidget(layout, index, item) ==
    SubSeq(layout, 1, index) \o <<item>> \o SubSeq(layout, index + 1, Len(layout))

delete_at(list, index) ==
    SubSeq(list, 1, index) \o SubSeq(list, index + 2, Len(list))

has_images(layout) == \E i \in 1..Len(layout) : layout[i].kind = "widget"

\* images_b64 = [img['base64'] for img in image_data]
ImagesB64(data) == [i \in 1..Len(data) |-> Str(data[i].base64)]

\* interactive_feedback calls launch_feedback_ui: the temporary file is
\* created, the command line is built and subprocess.run starts the child.
Launch ==
    /\ pc = "idle"
    /\ \E message \in Prompts, options \in OptionsValues :
          /\ request' = Request(message, options)
          /\ argv' = ServerArgs(message, options, TempPath)
    /\ human' \in Humans
    /\ output_file' = EmptyFile
    /\ allocated' = TRUE
    /\ child' = "running"
    /\ ui' = "start"
    /\ pc' = "waiting"
    /\ started' = started + 1
    /\ UNCHANGED <<returncode, stderr, elapsed, wrote, read_data, unlinked,
                   unlink_failed, launch, reply, error, prompt,
                   predefined_options, feedback_text, checked, feedback_result>>
    /\ UNCHANGED <<imgvars, twovars>>

\* feedback_ui.py is started from a shell, without the server.
RunFromShell ==
    /\ pc = "idle"
    /\ argv' \in ShellArgs
    /\ human' \in Humans
    /\ child' = "running"
    /\ ui' = "start"
    /\ pc' = "shell"
    /\ UNCHANGED <<output_file, allocated, returncode, stderr, elapsed, wrote,
                   read_data, unlinked, unlink_failed, launch, reply, error,
                   request, prompt, predefined_options, feedback_text, checked,
                   feedback_result>>
    /\ UNCHANGED <<started, imgvars, twovars>>

\* The child parses its command line: it exits with status 2 and a usage
\* message, or decodes the options and shows the dialog.
ParseArgs ==
    /\ ui = "start"
    /\ LET args == parse_args(argv) IN
          IF args.ok
          THEN /\ ui' = "dialog"
               /\ prompt' = args.ns.prompt
               /\ predefined_options' = DecodeOptions(args.ns.predefined_options)
               /\ UNCHANGED <<child, returncode, stderr>>
          ELSE /\ ui' = "done"
               /\ child' = "exited"
               /\ returncode' = 2
               /\ stderr' = Usage(args.message)
               /\ UNCHANGED <<prompt, predefined_options>>
    /\ UNCHANGED <<pc, output_file, allocated, elapsed, wrote, read_data,
                   unlinked, unlink_failed, launch, reply, error, request,
                   human, argv, feedback_text, checked, feedback_result>>
    /\ UNCHANGED <<started, imgvars, twovars>>

\* The person types their text into the feedback box.
TypeText ==
    /\ ui = "dialog"
    /\ human.intent = "submit"
    /\ feedback_text # human.text
    /\ feedback_text' = human.text
    /\ UNCHANGED <<pc, output_file, allocated, child, returncode, stderr,
                   elapsed, wrote, read_data, unlinked, unlink_failed, launch,
                   reply, error, request, human, argv, ui, prompt,
                   predefined_options, checked, feedback_result>>
    /\ UNCHANGED <<started, imgvars, twovars>>

\* The person checks the option box at position i.
CheckOption(i) ==
    /\ ui = "dialog"
    /\ human.intent = "submit"
    /\ i \in human.picks
    /\ i <= Len(predefined_options)
    /\ i \notin checked
    /\ checked' = checked \cup {i}
    /\ UNCHANGED <<pc, output_file, allocated, child, returncode, stderr,
                   elapsed, wrote, read_data, unlinked, unlink_failed, launch,
                   reply, error, request, human, argv, ui, prompt,
                   predefined_options, feedback_text, feedback_result>>
    /\ UNCHANGED <<started, imgvars, twovars>>

\* A delete_image that always drops the newest entry of image_data.
delete_newest_image_data(data, index) ==
    IF index < Len(data) THEN delete_at(data, Len(data) - 1) ELSE data

\* The body of delete_image on image_data: the entry at the layout index
\* of the frame is removed when there is one.
delete_image_data(data, index) ==
    IF index < Len(data) THEN delete_at(data, index) ELSE data

\* The person pastes an image into the feedback box: insertFromMimeData
\* appends the entry to image_data and emits image_pasted, and
\* _on_image_pasted shows the container (adding a stretch when it was
\* hidden) and puts the frame of the image before the first stretch.
PasteImage ==
    /\ ui = "dialog"
    /\ human.intent = "submit"
    /\ Len(pasted) < human.pastes
    /\ LET k == Len(pasted) + 1
           image_info == ImageInfo(convert_image_to_base64(Clipboard(k)), k)
           shown == IF images_visible THEN images_layout
                    ELSE Append(images_layout, Stretch)
       IN  /\ image_data' = Append(image_data, image_info)
           /\ pasted' = Append(pasted, image_info)
           /\ images_layout' =
                 IF Len(shown) > 0 /\ stretch_index(shown) >= 0
                 THEN insertWidget(shown, stretch_index(shown), Frame(k))
                 ELSE Append(shown, Frame(k))
    /\ images_visible' = TRUE
    /\ UNCHANGED <<pc, output_file, allocated, child, returncode, stderr,
                   elapsed, wrote, read_data, unlinked, unlink_failed, launch,
                   reply, error, request, human, argv, ui, prompt,
                   predefined_options, feedback_text, checked, feedback_result,
                   deleted, started, twovars>>

\* The person clicks the delete button on the preview of the k-th pasted
\* image: delete_image takes the frame out of the layout, deletes the entry
\* of image_data at the same index, and hides the container when no frame
\* is left.
DeleteImage(k) ==
    /\ ui = "dialog"
    /\ human.intent = "submit"
    /\ indexOf(images_layout, Frame(k)) >= 0
    /\ LET index == indexOf(images_layout, Frame(k))
           remaining == delete_at(images_layout, index)
       IN  /\ images_layout' = remaining
           /\ image_data' = delete_image_data(image_data, index)
           /\ images_visible' = (images_visible /\ has_images(remaining))
    /\ deleted' = deleted \cup {k}
    /\ UNCHANGED <<pc, output_file, allocated, child, returncode, stderr,
                   elapsed, wrote, read_data, unlinked, unlink_failed, launch,
                   reply, error, request, human, argv, ui, prompt,
                   predefined_options, feedback_text, checked, feedback_result,
                   pasted, started, twovars>>

\* Submit (the button, or Ctrl+Return): _submit_feedback stores the result
\* and closes the window.
SubmitFeedback ==
    /\ ui = "dialog"
    /\ human.intent = "submit"
    /\ feedback_text = human.text
    /\ checked = human.picks \cap (1..Len(predefined_options))
    /\ feedback_result' =
          FeedbackResult(Str(FinalFeedback(predefined_options, checked, feedback_text)),
                         List(ImagesB64(image_data)), Absent)
    /\ ui' = "closed"
    /\ UNCHANGED <<pc, output_file, allocated, child, returncode, stderr,
                   elapsed, wrote, read_data, unlinked, unlink_failed, launch,
                   reply, error, request, human, argv, prompt,
                   predefined_options, feedback_text, checked>>
    /\ UNCHANGED <<started, imgvars, twovars>>

\* Cancel, or the window is closed: no result is stored.
CloseWindow ==
    /\ ui = "dialog"
    /\ human.intent = "cancel"
    /\ ui' = "closed"
    /\ UNCHANGED <<pc, output_file, allocated, child, returncode, stderr,
                   elapsed, wrote, read_data, unlinked, unlink_failed, launch,
                   reply, error, request, human, argv, prompt,
                   predefined_options, feedback_text, checked, feedback_result>>
    /\ UNCHANGED <<started, imgvars, twovars>>

\* What FeedbackUI.run returns once the window is closed.
RunResult(result) ==
    IF result = NoResult THEN FeedbackResult(Str(<<>>), Absent, Absent) ELSE result

\* feedback_ui after the window is closed: the result is dumped to the
\* output file if a path was given, and the process exits with status 0.
UIReturns ==
    /\ ui = "closed"
    /\ IF parse_args(argv).ns.output_file # <<>>
       THEN /\ output_file' = JsonFile(Obj(RunResult(feedback_result)))
            /\ wrote' = TRUE
       ELSE UNCHANGED <<output_file, wrote>>
    /\ ui' = "done"
    /\ child' = "exited"
    /\ returncode' = 0
    /\ UNCHANGED <<pc, allocated, stderr, elapsed, read_data, unlinked,
                   unlink_failed, launch, reply, error, request, human, argv,
                   prompt, predefined_options, feedback_text, checked,
                   feedback_result>>
    /\ UNCHANGED <<started, imgvars, twovars>>

UINext ==
    \/ Launch
    \/ RunFromShell
    \/ ParseArgs
    \/ TypeText
    \/ \E i \in 1..MaxOptions : CheckOption(i)
    \/ PasteImage
    \/ \E k \in 1..MaxPastes : DeleteImage(k)
    \/ SubmitFeedback
    \/ CloseWindow
    \/ UIReturns
    \/ RunReturns
    \/ Respond

\* The call with feedback_ui.py itself as the child, and feedback_ui.py
\* started on its own.
UISpec == Init /\ [][UINext]_vars

\* ------------------------------------------------- two concurrent calls
\* What a UI child writes into the file it was given.
ChildResults ==
    {JsonFile(Obj(FeedbackResult(Str(<<"a">>), List(<<>>), Absent))),
     JsonFile(Obj(FeedbackResult(Str(<<"b">>), List(<<>>), Absent))),
     GarbageFile}

\* A temporary file creation that takes any name, taken or not.
AnyName(files) == Paths

\* tempfile.NamedTemporaryFile creates the file with O_EXCL: the name it
\* settles on is one no file has.
UnusedNames(files) == {p \in Paths : ~files[p].exists}

\* The call that holds the temporary file at a path: the one that created
\* it and has not yet returned from launch_feedback_ui; 0 when there is none.
Owner(p) ==
    IF \E c \in Calls : calls[c].path = p /\ calls[c].pc = "waiting"
    THEN CHOOSE c \in Calls : calls[c].path = p /\ calls[c].pc = "waiting"
    ELSE 0

\* launch_feedback_ui of call c: the temporary file is created and
\* subprocess.run starts the child with its path.
CallSpawn(c) ==
    /\ calls[c].pc = "idle"
    /\ \E p \in UnusedNames(fs) :
          /\ fs' = [fs EXCEPT ![p] = EmptyFile]
          /\ calls' = [calls EXCEPT ![c] =
                          Call("waiting", p, "running", 0, <<>>, EmptyFile,
                               NotCalled, <<>>, NoExc)]
    /\ UNCHANGED <<touched, onevars>>

\* The child of call c dumps its result to the path it was given.
CallChildWrites(c) ==
    /\ calls[c].child = "running"
    /\ calls[c].written = EmptyFile
    /\ \E content \in ChildResults :
          /\ fs' = [fs EXCEPT ![calls[c].path] = content]
          /\ calls' = [calls EXCEPT ![c].written = content]
    /\ UNCHANGED <<touched, onevars>>

\* The child of call c exits.
CallChildExits(c) ==
    /\ calls[c].child = "running"
    /\ \E code \in ExitCodes :
          calls' = [calls EXCEPT ![c].child = "exited",
                                 ![c].returncode = code,
                                 ![c].stderr = IF code = 0 THEN <<>>
                                               ELSE <<"usage: feedback_ui.py">>]
    /\ UNCHANGED <<fs, touched, onevars>>

\* subprocess.run of call c returns: the rest of launch_feedback_ui with
\* its finally block, on the file at the path of call c.
CallRunReturns(c) ==
    /\ calls[c].pc = "waiting"
    /\ calls[c].child = "exited"
    /\ LET p == calls[c].path
           file == fs[p]
       IN  /\ calls' = [calls EXCEPT
                          ![c].pc = "launched",
                          ![c].launch = AfterRun(calls[c].returncode,
                                                 calls[c].stderr, file)]
           /\ \E unlink_ok \in BOOLEAN :
                 fs' = [fs EXCEPT ![p] = Cleanup(file, unlink_ok)]
           /\ touched' = touched \cup
                 {Touch(c, p, Owner(p), {d \in Calls : calls[d].pc = "waiting"})}
    /\ UNCHANGED onevars

\* interactive_feedback of call c after launch_feedback_ui.
CallRespond(c) ==
    /\ calls[c].pc = "launched"
    /\ LET r == Reply(calls[c].launch) IN
          calls' = [calls EXCEPT
                      ![c].pc = IF r.status = "ok" THEN "returned" ELSE "raised",
                      ![c].reply = IF r.status = "ok" THEN r.value ELSE <<>>,
                      ![c].error = IF r.status = "ok" THEN NoExc ELSE r.exc]
    /\ UNCHANGED <<fs, touched, onevars>>

TwoCallNext ==
    \E c \in Calls :
        \/ CallSpawn(c)
        \/ CallChildWrites(c)
        \/ CallChildExits(c)
        \/ CallRunReturns(c)
        \/ CallRespond(c)

\* Two calls of interactive_feedback running at the same time in one
\* server, each with its own child.
TwoCallSpec == Init /\ [][TwoCallNext]_vars

\* ------------------------------------------------------------------ claims
\* Helpers the claims are stated with.

\* The reply is one text item, and it is the error item.
IsErrorReply ==
    /\ Len(reply) = 1
    /\ reply[1].type = "text"
    /\ reply[1].text # <<>>
    /\ reply[1].text[1] = ERROR_PREFIX

\* The call has ended and the file it read held a JSON object whose
\* interactive_feedback is a string.
ReadFeedback ==
    /\ pc \in Terminal
    /\ read_data.kind = "json"
    /\ read_data.val.t = "obj"
    /\ read_data.val.v[1].interactive_feedback.t = "str"

\* That object's fields.
ReadText == read_data.val.v[1].interactive_feedback.v
ReadImages == read_data.val.v[1].images
ReadEndSession == read_data.val.v[1].end_session

IsPrefix(p, s) == Len(p) <= Len(s) /\ SubSeq(s, 1, Len(p)) = p

\* x is t without its leading and trailing whitespace: t is x between two
\* runs of whitespace, and x neither starts nor ends with whitespace.
IsTrimmed(x, t) ==
    \E i, j \in 0..Len(t) :
        /\ i + j <= Len(t)
        /\ x = SubSeq(t, i + 1, Len(t) - j)
        /\ \A k \in 1..i : t[k] \in Whitespace
        /\ \A k \in (Len(t) - j + 1)..Len(t) : t[k] \in Whitespace
        /\ x # <<>> => (x[1] \notin Whitespace /\ x[Len(x)] \notin Whitespace)

\* The text of the reply's text item, empty if it has none.
ReplyText == IF reply # <<>> /\ reply[1].type = "text" THEN reply[1].text ELSE <<>>

\* C1: whatever the UI process does (any exit status, any content or
\* absence of the result file), interactive_feedback returns a content
\* list, and the list has at least one item.
C1_ReplyNeverEmpty ==
    pc \in Terminal => (pc = "returned" /\ Len(reply) >= 1)

\* C2: every failure inside launch_feedback_ui is caught in
\* interactive_feedback; the whole reply is then the one text item
\* "[error] Feedback UI failed: <detail>", and no exception leaves the call.
C2_LaunchFailureIsOneErrorItem ==
    (pc \in Terminal /\ launch.status = "raised") =>
        /\ pc = "returned"
        /\ error = NoExc
        /\ reply = <<[type |-> "text",
                      text |-> <<"[error] Feedback UI failed: ">> \o launch.exc.detail,
                      data |-> <<>>]>>

\* A result file that parsed to something other than an object was
\* reported as the error item.
C2_Witness ==
    /\ pc = "returned"
    /\ launch.status = "raised"
    /\ launch.exc.type = "ValueError"
    /\ IsErrorReply

C4_TimeoutYieldsError ==
    (pc = "returned" /\ elapsed * SecondsPerTick > 300) =>
        (IsErrorReply /\ child # "running")

\* C5: every call eventually ends, even when the child never exits on its
\* own.
C5_CallEnds == <>(pc \in Terminal)

\* C6: when the child exits with status 0 and has never written the result
\* file, the reply is exactly one text item with empty text.
C6_NoWriteIsCancellation ==
    (pc \in Terminal /\ child = "exited" /\ returncode = 0 /\ ~wrote) =>
        (pc = "returned" /\ reply = <<TextContent(<<>>)>>)

\* C7 as stated: a result of interactive_feedback = t, t not empty,
\* images = [] and end_session = false gives one text item with text t.
C7_TextIsFeedback ==
    (ReadFeedback /\ ReadText # <<>> /\ ReadImages = List(<<>>)
        /\ ReadEndSession = Bool(FALSE)) =>
        (pc = "returned" /\ reply = <<TextContent(ReadText)>>)

\* C7 amended: such a result gives one text item whose text is t without
\* its leading and trailing whitespace (the empty text when t is only
\* whitespace).
C7_TextIsTrimmedFeedback ==
    (ReadFeedback /\ ReadText # <<>> /\ ReadImages = List(<<>>)
        /\ ReadEndSession = Bool(FALSE)) =>
        /\ pc = "returned"
        /\ Len(reply) = 1
        /\ reply[1].type = "text"
        /\ IsTrimmed(reply[1].text, ReadText)

\* The feedback " a" came back as the one text item "a".
C7_Witness ==
    /\ ReadFeedback
    /\ ReadText = <<" ", "a">>
    /\ ReadImages = List(<<>>)
    /\ ReadEndSession = Bool(FALSE)
    /\ pc = "returned"
    /\ reply = <<TextContent(<<"a">>)>>

\* C8 as stated, for a result without images: with end_session true the
\* text item is t, a blank line and the stop sentence when t is not empty,
\* and the stop sentence alone when t is empty; with end_session false or
\* absent the stop sentence does not appear.
C8_StopNoteAfterFeedback ==
    (ReadFeedback /\ ReadImages = List(<<>>)) =>
        /\ ReadEndSession = Bool(TRUE) =>
              /\ pc = "returned"
              /\ reply = <<TextContent(IF ReadText # <<>>
                                       THEN ReadText \o <<"\n", "\n", STOP_NOTE>>
                                       ELSE <<STOP_NOTE>>)>>
        /\ ReadEndSession \in {Bool(FALSE), Absent} =>
              /\ pc = "returned"
              /\ \A i \in 1..Len(ReplyText) : ReplyText[i] # STOP_NOTE

\* C8 amended: with end_session true the text item begins with the feedback
\* text without its leading and trailing whitespace, a blank line and the
\* stop sentence when that stripped text is not empty, and with the stop
\* sentence alone when it is empty; when no image fails to decode that is
\* the whole text.  With end_session false or absent the stop sentence does
\* not appear.
C8_StopNoteAfterTrimmedFeedback ==
    (ReadFeedback /\ ReadImages.t = "list") =>
        /\ ReadEndSession = Bool(TRUE) =>
              /\ pc = "returned"
              /\ \E k \in 1..Len(ReplyText) :
                    /\ ReplyText[k] = STOP_NOTE
                    /\ IF k = 1
                       THEN IsTrimmed(<<>>, ReadText)
                       ELSE /\ k > 3
                            /\ SubSeq(ReplyText, k - 2, k - 1) = <<"\n", "\n">>
                            /\ IsTrimmed(SubSeq(ReplyText, 1, k - 3), ReadText)
                    /\ (\A n \in 1..Len(ReadImages.v) : b64decode(ReadImages.v[n]).ok)
                          => k = Len(ReplyText)
        /\ ReadEndSession \in {Bool(FALSE), Absent} =>
              /\ pc = "returned"
              /\ \A i \in 1..Len(ReplyText) : ReplyText[i] # STOP_NOTE

\* The feedback " a" with end_session true came back as "a", a blank line
\* and the stop sentence.
C8_Witness ==
    /\ ReadFeedback
    /\ ReadText = <<" ", "a">>
    /\ ReadImages = List(<<>>)
    /\ ReadEndSession = Bool(TRUE)
    /\ pc = "returned"
    /\ reply = <<TextContent(<<"a", "\n", "\n", STOP_NOTE>>)>>

\* A valid base64 string (RFC 4648): a multiple of four characters, all of
\* the alphabet, but for one or two pad characters at the very end.
ValidBase64(e) ==
    /\ e.t = "str"
    /\ Len(e.v) % 4 = 0
    /\ \A i \in 1..Len(e.v) :
          \/ B64Value(e.v[i]) < 64
          \/ /\ e.v[i] = "="
             /\ i >= Len(e.v) - 1
             /\ \A k \in i..Len(e.v) : e.v[k] = "="

\* C9: when images holds exactly one entry, which is not a valid base64
\* string, and interactive_feedback is "", the reply is one text item whose
\* text starts with "[warning] Image 1 failed to decode:", and no image
\* item.
C9_InvalidImageWarns ==
    (ReadFeedback /\ ReadText = <<>> /\ ReadEndSession = Bool(FALSE)
        /\ ReadImages.t = "list" /\ Len(ReadImages.v) = 1
        /\ ~ValidBase64(ReadImages.v[1])) =>
        /\ pc = "returned"
        /\ Len(reply) = 1
        /\ reply[1].type = "text"
        /\ IsPrefix(<<"[warning] Image ", "1", " failed to decode: ">>, reply[1].text)

\* The entries of a list that decode, and the positions of those that fail.
DecodableEntry(e) == b64decode(e).ok
FailedPositions(l) == {n \in 1..Len(l) : ~b64decode(l[n]).ok}
IsImageItem(c) == c.type = "image"

\* The warning line of position n is in the text.
HasWarning(text, n, detail) ==
    \E i \in 1..Len(text) :
        IsPrefix(<<"[warning] Image ", ToString(n), " failed to decode: ">> \o detail,
                 SubSeq(text, i, Len(text)))

\* C10: for an images list of any length, an entry that fails to decode
\* does not abort the call: the reply holds one image item for each entry
\* that decodes, in the order of the list, and the text holds one warning
\* line "[warning] Image n failed to decode: <detail>" for each failing
\* entry, n its 1-based position in the list, and no other warning line.
C10_FailedImageIsSkippedWithWarning ==
    (pc \in Terminal /\ launch.status = "ok"
        /\ launch.value.interactive_feedback.t = "str"
        /\ launch.value.images.t = "list") =>
        LET l == launch.value.images.v
            good == SelectSeq(l, DecodableEntry)
            items == SelectSeq(reply, IsImageItem)
        IN  /\ pc = "returned"
            /\ Len(items) = Len(good)
            /\ \A i \in 1..Len(good) : items[i].data = b64decode(good[i]).data
            /\ \A n \in FailedPositions(l) :
                  HasWarning(ReplyText, n, b64decode(l[n]).detail)
            /\ Cardinality({i \in 1..Len(ReplyText) : ReplyText[i] = "[warning] Image "})
                  = Cardinality(FailedPositions(l))

\* A list whose second entry failed between two that decoded: both image
\* items are in the reply, in order, after the warning for position 2.
C10_Witness ==
    /\ ReadFeedback
    /\ ReadImages = List(<<Str(<<"!", "A", "A", "A", "B">>), Str(<<"A">>),
                           Str(<<"Q", "Q", "=", "=">>)>>)
    /\ pc = "returned"
    /\ Len(reply) = 3
    /\ HasWarning(reply[1].text, 2, b64decode(Str(<<"A">>)).detail)
    /\ reply[2] = ImageContent(<<0, 0, 1>>)
    /\ reply[3] = ImageContent(<<65>>)

\* The text the error item carries for exit status code and error-stream
\* text err.
LaunchErrorText(code, err) ==
    <<"[error] Feedback UI failed: ", "Failed to launch feedback UI (code ",
      ToString(code), "): ">> \o (IF err # <<>> THEN err ELSE <<"Unknown error">>)

ReadUnparsable == read_data.kind \in {"empty", "garbage"}

C15_NonObjectIsError ==
    (pc \in Terminal /\ read_data.kind = "json" /\ read_data.val.t # "obj") =>
        /\ launch.status = "raised"
        /\ launch.value = NoResult
        /\ pc = "returned"
        /\ reply = <<TextContent(<<"[error] Feedback UI failed: ",
                                   "Invalid feedback result: expected dict">>)>>

\* The file held the JSON list [] and the reply is the error item.
C15_Witness ==
    /\ pc = "returned"
    /\ read_data.kind = "json"
    /\ read_data.val = List(<<>>)
    /\ launch.status = "raised"
    /\ IsErrorReply

\* The call read a JSON object from the result file.
ReadObject == read_data.kind = "json" /\ read_data.val.t = "obj"

\* C16: every response launch_feedback_ui returns has all three keys: a key
\* the file's object lacks has its default ("" for interactive_feedback, []
\* for images, false for end_session), a key the object has keeps the
\* value it had; without a file the response is the three defaults.
C16_ResponseHasThreeKeys ==
    launch.status = "ok" =>
        /\ launch.value.interactive_feedback # Absent
        /\ launch.value.images # Absent
        /\ launch.value.end_session # Absent
        /\ ReadObject =>
              LET o == read_data.val.v[1] IN
              /\ launch.value.interactive_feedback =
                    (IF o.interactive_feedback = Absent
                     THEN [t |-> "str", v |-> <<>>] ELSE o.interactive_feedback)
              /\ launch.value.images =
                    (IF o.images = Absent THEN [t |-> "list", v |-> <<>>] ELSE o.images)
              /\ launch.value.end_session =
                    (IF o.end_session = Absent
                     THEN [t |-> "bool", v |-> <<"false">>] ELSE o.end_session)
        /\ ~ReadObject =>
              launch.value = [interactive_feedback |-> [t |-> "str", v |-> <<>>],
                              images |-> [t |-> "list", v |-> <<>>],
                              end_session |-> [t |-> "bool", v |-> <<"false">>]]

\* The file's object had only interactive_feedback = "a": the response
\* carries it with images = [] and end_session = false.
C16_Witness ==
    /\ launch.status = "ok"
    /\ ReadObject
    /\ read_data.val.v[1] = FeedbackResult(Str(<<"a">>), Absent, Absent)
    /\ launch.value = FeedbackResult(Str(<<"a">>), List(<<>>), Bool(FALSE))

\* The call ended on a response whose interactive_feedback is a string and
\* whose images is a list.
SuccessfulReply ==
    /\ pc \in Terminal
    /\ launch.status = "ok"
    /\ launch.value.interactive_feedback.t = "str"
    /\ launch.value.images.t = "list"

\* The final text of that response is not empty: the feedback has a
\* character that is not whitespace, or the stop note or a warning was added.
FinalTextNonEmpty ==
    \/ ~IsTrimmed(<<>>, launch.value.interactive_feedback.v)
    \/ Truthy(launch.value.end_session)
    \/ FailedPositions(launch.value.images.v) # {}

\* The image items of the reply are the decoded entries, in order.
ImageItemsInOrder ==
    LET good == SelectSeq(launch.value.images.v, DecodableEntry)
        items == SelectSeq(reply, IsImageItem)
    IN  /\ Len(items) = Len(good)
        /\ \A i \in 1..Len(good) : items[i].data = b64decode(good[i]).data

\* C17 as stated: a successful reply is ordered: at most one text item,
\* which comes first and is present exactly when the final text is not
\* empty, then one image item per decoded entry in the order of the list.
C17_ReplyOrder ==
    SuccessfulReply =>
        /\ pc = "returned"
        /\ \A i \in 1..Len(reply) : reply[i].type = "text" => i = 1
        /\ (reply # <<>> /\ reply[1].type = "text") <=> FinalTextNonEmpty
        /\ ImageItemsInOrder
        /\ Len(reply) = (IF FinalTextNonEmpty THEN 1 ELSE 0)
                            + Len(SelectSeq(reply, IsImageItem))

\* C17 amended: as above, but the text item is also present, with empty
\* text, when the final text is empty and no entry decoded: the reply is
\* then that one item.
C17_ReplyOrderWithFallback ==
    SuccessfulReply =>
        LET images == SelectSeq(reply, IsImageItem)
            hasText == reply # <<>> /\ reply[1].type = "text"
        IN  /\ pc = "returned"
            /\ \A i \in 1..Len(reply) : reply[i].type = "text" => i = 1
            /\ hasText <=> (FinalTextNonEmpty \/ images = <<>>)
            /\ hasText => (reply[1].text # <<>> <=> FinalTextNonEmpty)
            /\ ImageItemsInOrder
            /\ Len(reply) = (IF hasText THEN 1 ELSE 0) + Len(images)

\* The feedback "a" with two decodable images came back as the text item
\* followed by the two image items in the order of the list.
C17_Witness ==
    /\ SuccessfulReply
    /\ launch.value.interactive_feedback = Str(<<"a">>)
    /\ launch.value.images = List(<<Str(<<"Q", "Q", "=", "=">>),
                                    Str(<<"!", "A", "A", "A", "B">>)>>)
    /\ reply = <<TextContent(<<"a">>), ImageContent(<<65>>), ImageContent(<<0, 0, 1>>)>>

\* The child was started by a call of interactive_feedback and has gone
\* through its command line.
ServerLaunched == pc \notin {"idle", "shell"} /\ ui \notin {"none", "start"}

\* C11: for every prompt string (leading hyphens, quotes and newlines
\* included) a call passes to the UI process, the prompt the UI holds is
\* the original string.
C11_PromptRoundTrip ==
    ServerLaunched =>
        /\ parse_args(argv).ok
        /\ prompt = request.message

\* C12: every argument the call puts on the child's command line is one
\* the child's argument parser accepts: the child of a call does not exit
\* with a non-zero status while parsing its arguments.
C12_ArgumentsAccepted ==
    ServerLaunched => ~(ui = "done" /\ child = "exited" /\ returncode # 0)

C19_EndSessionFollowsHuman ==
    (ui = "done" /\ returncode = 0 /\ wrote /\ human.intent = "submit") =>
        LET delivered == AfterRun(returncode, stderr, output_file) IN
        /\ delivered.status = "ok"
        /\ delivered.value.end_session = Bool(human.end)

\* C20: the predefined options of a call reach the dialog unchanged: the
\* same strings in the same order, and no options for an absent or empty
\* list.
C20_OptionsRoundTrip ==
    ServerLaunched =>
        /\ ui # "done" \/ returncode = 0
        /\ Len(predefined_options) = Len(request.predefined_options.items)
        /\ \A i \in 1..Len(predefined_options) :
              predefined_options[i] = Str(request.predefined_options.items[i])

\* C24: the call reads the result file only after the child has exited
\* with status 0: never while the child runs, never after another status.
C24_ReadOnlyAfterZeroExit ==
    /\ child = "running" => read_data = NoRead
    /\ read_data # NoRead => (child = "exited" /\ returncode = 0)

\* The child wrote an object and exited with status 0, and the call read
\* that object.
C24_Witness ==
    /\ child = "exited"
    /\ returncode = 0
    /\ wrote
    /\ ReadObject

\* C26: a result file holding a JSON object whose fields have unexpected
\* types (interactive_feedback null or a number, images null or not a
\* list, an images entry not a string) still gives a reply with at least
\* one item, and no exception leaves interactive_feedback.
C26_WrongTypesStillReply ==
    (pc \in Terminal /\ ReadObject) =>
        /\ pc = "returned"
        /\ error = NoExc
        /\ Len(reply) >= 1

\* The non-empty texts of parts, each followed by a blank line but the
\* last.
RECURSIVE JoinParts(_)
JoinParts(parts) ==
    IF parts = <<>> THEN <<>>
    ELSE IF parts[1] = <<>> THEN JoinParts(Tail(parts))
    ELSE LET rest == JoinParts(Tail(parts)) IN
         IF rest = <<>> THEN parts[1] ELSE parts[1] \o <<"\n", "\n">> \o rest

\* The warning lines of the entries of l that fail to decode, in ascending
\* position from n on.
RECURSIVE WarningParts(_, _)
WarningParts(l, n) ==
    IF n > Len(l) THEN <<>>
    ELSE (IF b64decode(l[n]).ok
          THEN <<>>
          ELSE << <<"[warning] Image ", ToString(n), " failed to decode: ">>
                     \o b64decode(l[n]).detail >>) \o WarningParts(l, n + 1)

\* C27: the reply text is, in this order, the feedback text without its
\* leading and trailing whitespace, the stop sentence if end_session is
\* true (or another value Python takes for true), and the decode warnings
\* in ascending image position; the parts that are not empty are separated
\* by exactly one blank line, with no separator before the first of them.
C27_TextOrder ==
    SuccessfulReply =>
        \E t \in {Strip(launch.value.interactive_feedback.v)} :
            /\ IsTrimmed(t, launch.value.interactive_feedback.v)
            /\ ReplyText =
                  JoinParts(<<t>>
                      \o (IF launch.value.end_session \in {Bool(TRUE), Num("1")}
                          THEN << <<STOP_NOTE>> >> ELSE <<>>)
                      \o WarningParts(launch.value.images.v, 1))

\* The feedback " a" with end_session true and an entry that fails to
\* decode: the text is "a", the stop sentence and the warning, a blank
\* line between them.
C27_Witness ==
    /\ SuccessfulReply
    /\ launch.value.interactive_feedback = Str(<<" ", "a">>)
    /\ launch.value.end_session = Bool(TRUE)
    /\ launch.value.images = List(<<Str(<<"A">>)>>)
    /\ reply = <<TextContent(<<"a", "\n", "\n", STOP_NOTE, "\n", "\n",
                               "[warning] Image ", "1", " failed to decode: ">>
                                  \o b64decode(Str(<<"A">>)).detail)>>


\* C25: one call starts the UI process at most once: no state has a second
\* start, and once launch_feedback_ui is over the process was started exactly
\* once unless the temporary file or the script check failed (the two
\* FileNotFoundError exits before subprocess.run).
LaunchOver == pc \in {"launched"} \cup Terminal

FailedBeforeRun ==
    launch.status = "raised" /\ launch.exc.type = "FileNotFoundError"

C25_StartedAtMostOnce ==
    /\ started <= 1
    /\ LaunchOver => (started = 1 <=> ~FailedBeforeRun)

\* The child exited with a non-zero status, the call answered with the error,
\* and the process was started once.
C25_Witness ==
    /\ pc = "returned"
    /\ started = 1
    /\ returncode # 0
    /\ launch.status = "raised"
    /\ IsErrorReply

\* The steps on the result file of one call.  A write puts content at the
\* path after the invoker created it; a read fills read_data; the invoker
\* has given up on the path once launch_feedback_ui is over.
WriteStep == pc = "waiting" /\ output_file'.exists /\ output_file' # output_file

ReadStep == read_data' # read_data

FileProtocolState ==
    /\ wrote => child # "none"
    /\ read_data # NoRead => LaunchOver
    /\ (LaunchOver \/ unlinked \/ unlink_failed) => child # "running"

FileProtocolStep ==
    /\ WriteStep => (child = "running" /\ ~wrote /\ wrote')
    /\ ReadStep => (read_data = NoRead /\ pc = "waiting" /\ pc' = "launched")
    /\ (unlinked' # unlinked) => (~LaunchOver /\ pc' = "launched" /\ ~output_file'.exists)
    /\ LaunchOver => UNCHANGED <<output_file, wrote, read_data, unlinked, child>>

Submitted == ui \in {"closed", "done"} /\ feedback_result # NoResult

\* The checked options in display order: the k-th is the option at the
\* k-th smallest checked position.
CheckedInOrder ==
    [k \in 1..Cardinality(checked) |->
        predefined_options[CHOOSE i \in checked :
                              Cardinality({j \in checked : j < i}) = k - 1].v]

\* Texts joined with a semicolon and a space between neighbours.
RECURSIVE SemicolonJoined(_)
SemicolonJoined(texts) ==
    IF texts = <<>> THEN <<>>
    ELSE IF Len(texts) = 1 THEN texts[1]
    ELSE SemicolonJoined(SubSeq(texts, 1, Len(texts) - 1))
            \o <<";", " ">> \o texts[Len(texts)]

\* C21 as stated: on submit the feedback text is the checked options in
\* display order joined by the semicolon separator, a blank line and the
\* free text as entered when both are present, the one that is present
\* otherwise, and empty when neither is.
C21_SubmitFormat ==
    Submitted =>
        feedback_result.interactive_feedback =
            Str(JoinParts(<<SemicolonJoined(CheckedInOrder), feedback_text>>))

\* C21 amended: the same with the free text stripped of leading and
\* trailing whitespace, a text of whitespace only counting as no text.
C21_SubmitFormatStripped ==
    Submitted =>
        feedback_result.interactive_feedback =
            Str(JoinParts(<<SemicolonJoined(CheckedInOrder), Strip(feedback_text)>>))

\* Two options checked and the text " a" typed: both options, the blank
\* line, then "a".
C21_Witness ==
    /\ Submitted
    /\ Len(predefined_options) = 2
    /\ checked = {1, 2}
    /\ feedback_text = <<" ", "a">>
    /\ feedback_result.interactive_feedback =
          Str(predefined_options[1].v \o <<";", " ">> \o predefined_options[2].v
                \o <<"\n", "\n", "a">>)

\* The pasted images whose delete button was not clicked, in paste order.
RECURSIVE KeptImages(_)
KeptImages(log) ==
    IF log = <<>> THEN <<>>
    ELSE (IF log[1].filename \in deleted THEN <<>> ELSE <<Str(log[1].base64)>>)
            \o KeptImages(Tail(log))

\* C28: after any sequence of image pastes and preview deletions, the
\* images submitted are exactly the pasted images whose previews were not
\* deleted, in paste order; while the dialog is open image_data holds
\* exactly those images and the layout shows exactly their frames.
C28_SubmittedImagesAreKeptImages ==
    /\ ImagesB64(image_data) = KeptImages(pasted)
    /\ \A k \in 1..Len(pasted) :
          (indexOf(images_layout, Frame(k)) >= 0) <=> (k \notin deleted)
    /\ Submitted =>
          /\ feedback_result.images.t = "list"
          /\ feedback_result.images.v = KeptImages(pasted)

\* Three images pasted, the first two previews deleted (the container is
\* hidden in between when the only preview goes), the third submitted.
C28_Witness ==
    /\ Submitted
    /\ Len(pasted) = MaxPastes
    /\ deleted = {1, 2}
    /\ Len(images_layout) > 2
    /\ feedback_result.images.v = <<Str(pasted[3].base64)>>

\* C22: two calls running concurrently have distinct result-file paths;
\* the outcome of each call is the one its own child's exit status, error
\* stream and written file give; and a call reads and unlinks only the
\* file it holds itself.
C22_ConcurrentCallsAreIndependent ==
    /\ \A c, d \in Calls :
          (c # d /\ calls[c].pc = "waiting" /\ calls[d].pc = "waiting") =>
              calls[c].path # calls[d].path
    /\ \A c \in Calls :
          /\ calls[c].pc \in {"launched"} \cup Terminal =>
                calls[c].launch = AfterRun(calls[c].returncode, calls[c].stderr,
                                           calls[c].written)
          /\ calls[c].pc \in Terminal =>
                /\ calls[c].pc = "returned"
                /\ calls[c].reply = Reply(AfterRun(calls[c].returncode,
                                                   calls[c].stderr,
                                                   calls[c].written)).value
    /\ \A t \in touched : t.by = t.owner /\ t.path = calls[t.by].path

\* Call 1 read and removed its file while call 2 was waiting for its
\* child, the children wrote different results, and each call answered
\* with the text of its own child.
C22_Witness ==
    /\ calls[1].pc = "returned"
    /\ calls[2].pc = "returned"
    /\ calls[1].path # calls[2].path
    /\ Touch(1, calls[1].path, 1, Calls) \in touched
    /\ Touch(2, calls[2].path, 2, {2}) \in touched
    /\ calls[1].reply = <<TextContent(<<"a">>)>>
    /\ calls[2].reply = <<TextContent(<<"b">>)>>
====
